---- MODULE Spec2Model ----
(***************************************************************************)
(* Feedback API (NotThird/copilot-feedback-api).                           *)
(*                                                                         *)
(* The server variants of the repository:                                  *)
(*   "copilot"  - the Copilot Studio variant (src/unnamed/part_002, lines  *)
(*                277-522): text body parser, body-normalizing middleware, *)
(*                connection-check middleware, tolerant field extraction;  *)
(*   "serverjs" - src/server.js: express.json(), early error middleware,   *)
(*                strict destructuring of the six fields, SIGINT handler;  *)
(*   "mongoose" - the schema-validated variant (src/unnamed/part_002,      *)
(*                lines 1-275): readyState check, schema validation,       *)
(*                NODE_ENV-dependent error text, SIGTERM handler.          *)
(* JSON values, request bodies (as token sequences), JSON.parse,           *)
(* JSON.stringify, parseInt and JavaScript truthiness are modelled by what *)
(* they compute.  The connection string is configured (MONGODB_URI is      *)
(* set), so the /feedback routes exist, and every POST carries a text body.*)
(***************************************************************************)
EXTENDS Integers, Sequences, FiniteSets, TLC

VARIABLES
    variant,             \* which server file runs: "copilot" or "serverjs"
    dbUp,                \* environment: the MongoDB server is reachable
    startup,             \* the startup call of connectToMongo: "pending" | "done"
    isConnected,         \* part_002:360
    feedbackCollection,  \* part_002:359 / server.js:49: "undefined" | "defined"
    store,               \* the documents of collection feedback-data, in insertion order
    now,                 \* the server clock (Date)
    reqs,                \* the requests: position in the middleware chain and response
    flips,               \* how often the database's reachability has changed
    xin,                 \* extractor harness: the parsed body under extraction
    xout,                \* extractor harness: fields extracted from xin, missingFields
    xpc,                 \* extractor harness: "in" | "out"
    NODE_ENV,            \* process.env.NODE_ENV: "production" | "development"
    readyState,          \* mongoose.connection.readyState (part_002:131-137)
    client,              \* the MongoClient of server.js:47: "new" | "open" | "closed"
    shutdown,            \* the signal handler: "none" | "serverClosing" | "closing"
                         \* | "closed" | "failed"
    exitCode             \* the argument of process.exit; -1 while the process runs

\* the state of the process life cycle
life == <<NODE_ENV, readyState, client, shutdown, exitCode>>

vars == <<variant, dbUp, startup, isConnected, feedbackCollection, store, now, reqs,
          flips, xin, xout, xpc, life>>

(***************************************************************************)
(* Bounds of the model.                                                    *)
(***************************************************************************)
MaxReq == 2        \* requests per behaviour
MaxTime == 2       \* the clock runs from 1 to MaxTime
MaxFlips == 2      \* changes of the database's reachability per behaviour
MaxDepth == 2      \* nesting depth of the values given to the field extractor
LifeReq == 1       \* requests per behaviour of the life cycle (at most MaxReq)
StackFrames == 3   \* activations of findValueInObject the call stack has room for

(***************************************************************************)
(* JavaScript values.  Every value is a record of one shape:               *)
(*   t    : "undef" | "null" | "bool" | "num" | "nan" | "str" | "obj"      *)
(*          | "arr"                                                        *)
(*   s    : the text of a string                                           *)
(*   n, d : a number's integer part and its first decimal digit            *)
(*          (a boolean is n = 1 / n = 0)                                   *)
(*   kids : the own enumerable properties of an object or array, in        *)
(*          insertion order, each [k |-> key, v |-> value]                 *)
(***************************************************************************)
Val(t, s, n, d, kids) == [t |-> t, s |-> s, n |-> n, d |-> d, kids |-> kids]

Undefined == Val("undef", "", 0, 0, <<>>)
JNull == Val("null", "", 0, 0, <<>>)
NaN == Val("nan", "", 0, 0, <<>>)
JBool(b) == Val("bool", "", IF b THEN 1 ELSE 0, 0, <<>>)
JNum(n) == Val("num", "", n, 0, <<>>)
JDec(n, d) == Val("num", "", n, d, <<>>)
JStr(s) == Val("str", s, 0, 0, <<>>)
JObj(kids) == Val("obj", "", 0, 0, kids)
KV(k, v) == [k |-> k, v |-> v]

\* The property names of an array's elements: "0", "1", ...
IndexKey(i) == <<"0", "1", "2", "3">>[i]
JArr(elems) == Val("arr", "", 0, 0, [i \in 1..Len(elems) |-> KV(IndexKey(i), elems[i])])

Range(f) == {f[i] : i \in DOMAIN f}

\* typeof v === 'object'
TypeofObject(v) == v.t \in {"obj", "arr", "null"}

\* ToBoolean(v): what `!v`, `v || w` and `if (v)` test
Truthy(v) ==
    CASE v.t = "str" -> v.s # ""
      [] v.t = "num" -> ~(v.n = 0 /\ v.d = 0)
      [] v.t = "bool" -> v.n = 1
      [] v.t \in {"obj", "arr"} -> TRUE
      [] OTHER -> FALSE

\* a || b
OrElse(a, b) == IF Truthy(a) THEN a ELSE b

\* obj[key]: the value of own property key, undefined when there is none
HasKey(obj, key) == \E i \in DOMAIN obj.kids : obj.kids[i].k = key
Get(obj, key) ==
    IF HasKey(obj, key)
    THEN obj.kids[CHOOSE i \in DOMAIN obj.kids : obj.kids[i].k = key].v
    ELSE Undefined

\* Object.values(obj)
ObjectValues(obj) == [i \in DOMAIN obj.kids |-> obj.kids[i].v]

(***************************************************************************)
(* parseInt.  A string is an atom of the model; Chars spells the strings   *)
(* whose characters the program looks at.                                  *)
(***************************************************************************)
Chars(s) ==
    CASE s = "5" -> <<"5">>
      [] s = "3" -> <<"3">>
      [] s = "0" -> <<"0">>
      [] s = "4.7" -> <<"4", ".", "7">>
      [] s = " 5" -> <<" ", "5">>
      [] s = "-3" -> <<"-", "3">>
      [] s = "5 stars" -> <<"5", " ", "s", "t", "a", "r", "s">>
      [] s = "abc" -> <<"a", "b", "c">>
      [] s = "" -> <<>>
      [] OTHER -> <<"?">>      \* any other string of the model starts with no digit

IsDigit(c) == c \in {"0", "1", "2", "3", "4", "5", "6", "7", "8", "9"}
DigitVal(c) ==
    CASE c = "0" -> 0 [] c = "1" -> 1 [] c = "2" -> 2 [] c = "3" -> 3 [] c = "4" -> 4
      [] c = "5" -> 5 [] c = "6" -> 6 [] c = "7" -> 7 [] c = "8" -> 8 [] c = "9" -> 9

RECURSIVE SkipSpace(_, _)
SkipSpace(cs, i) ==
    IF i <= Len(cs) /\ cs[i] = " " THEN SkipSpace(cs, i + 1) ELSE i

RECURSIVE Digits(_, _, _)
\* the value of the longest run of digits of cs from i on, after acc
Digits(cs, i, acc) ==
    IF i <= Len(cs) /\ IsDigit(cs[i])
    THEN Digits(cs, i + 1, 10 * acc + DigitVal(cs[i]))
    ELSE acc

\* parseInt of a string given by its characters: leading white space, a sign,
\* then the longest prefix of digits; NaN when there is no digit
ParseIntChars(cs) ==
    LET i == SkipSpace(cs, 1)
        neg == i <= Len(cs) /\ cs[i] = "-"
        j == IF i <= Len(cs) /\ cs[i] \in {"-", "+"} THEN i + 1 ELSE i
    IN  IF j <= Len(cs) /\ IsDigit(cs[j])
        THEN JNum(IF neg THEN 0 - Digits(cs, j, 0) ELSE Digits(cs, j, 0))
        ELSE NaN

RECURSIVE parseInt(_)
\* parseInt(v) = parseInt(String(v)): a number keeps its integer part, "true",
\* "null", "undefined" and "[object Object]" hold no digit, and an array's string
\* starts with the string of its first element
parseInt(v) ==
    CASE v.t = "num" -> JNum(v.n)
      [] v.t = "str" -> ParseIntChars(Chars(v.s))
      [] v.t = "arr" -> IF Len(v.kids) = 0 \/ v.kids[1].v.t \in {"null", "undef"}
                        THEN NaN
                        ELSE parseInt(v.kids[1].v)
      [] OTHER -> NaN

\* Number.isInteger
IsInteger(v) == v.t = "num" /\ v.d = 0

(***************************************************************************)
(* The Field Extractor of the Copilot Studio variant.                      *)
(***************************************************************************)
\* part_002:412  obj[key] !== undefined && obj[key] !== null && obj[key] !== ''
IsMatch(v) == v.t \notin {"undef", "null"} /\ ~(v.t = "str" /\ v.s = "")

\* part_002:408  !obj || typeof obj !== 'object'
NotSearchable(obj) == ~Truthy(obj) \/ ~TypeofObject(obj)

\* a direct search that lets the last listed key win
DirectMatchLast(obj, keys) ==
    IF \E i \in DOMAIN keys : IsMatch(Get(obj, keys[i]))
    THEN LET last == CHOOSE i \in DOMAIN keys :
                         /\ IsMatch(Get(obj, keys[i]))
                         /\ \A j \in (i + 1)..Len(keys) : ~IsMatch(Get(obj, keys[j]))
         IN  Get(obj, keys[last])
    ELSE Undefined

\* part_002:411-415  the value of the first listed key that matches directly;
\* undefined when none does
DirectMatch(obj, keys) ==
    IF \E i \in DOMAIN keys : IsMatch(Get(obj, keys[i]))
    THEN LET first == CHOOSE i \in DOMAIN keys :
                          /\ IsMatch(Get(obj, keys[i]))
                          /\ \A j \in 1..(i - 1) : ~IsMatch(Get(obj, keys[j]))
         IN  Get(obj, keys[first])
    ELSE Undefined

\* a nested search that skips arrays
DescendsPlainOnly(value) == value.t \in {"obj", "null"}

\* part_002:419  typeof value === 'object'
Descends(value) == value.t \in {"obj", "arr", "null"}

\* part_002:421  if (found)
Found(found) == Truthy(found)

RECURSIVE findValueInObject(_, _)
RECURSIVE SearchNested(_, _, _)
\* part_002:418-423  the loop over Object.values(obj), from position i on
SearchNested(vals, i, keys) ==
    IF i > Len(vals)
    THEN JNull
    ELSE IF Descends(vals[i]) /\ Found(findValueInObject(vals[i], keys))
         THEN findValueInObject(vals[i], keys)
         ELSE SearchNested(vals, i + 1, keys)

findValueInObject(obj, keys) ==
    IF NotSearchable(obj)
    THEN JNull
    ELSE IF DirectMatch(obj, keys) # Undefined
         THEN DirectMatch(obj, keys)
         ELSE SearchNested(ObjectValues(obj), 1, keys)

Fields == <<"userMessage", "botResponse", "feedback", "rating", "userId", "userName">>

\* part_002:429-436
fieldKeys(f) ==
    CASE f = "userMessage" -> <<"userMessage", "text", "query", "message", "input">>
      [] f = "botResponse" -> <<"botResponse", "lastBotResponse", "response", "answer", "output">>
      [] f = "feedback" -> <<"feedback", "userFeedback", "comment", "text">>
      [] f = "rating" -> <<"rating", "score", "stars", "value">>
      [] f = "userId" -> <<"userId", "conversationId", "id", "user_id", "from.id">>
      [] f = "userName" -> <<"userName", "user", "name", "from.name">>

\* part_002:439-444  the six extracted fields with their defaults
ExtractField(parsedBody, f) ==
    OrElse(findValueInObject(parsedBody, fieldKeys(f)),
           IF f = "userName" THEN JStr("anonymous") ELSE JStr(""))

Extract(parsedBody) == [f \in Range(Fields) |-> ExtractField(parsedBody, f)]

\* part_002:457-462  in the order of the five checks
CheckOrder == <<"botResponse", "feedback", "rating", "userMessage", "userId">>
IsMissing(v) == ~Truthy(v)
MissingFields(x) == SelectSeq(CheckOrder, LAMBDA f : IsMissing(x[f]))

\* part_002:482-490  newFeedback
NewFeedback(x, time) ==
    [userMessage |-> x["userMessage"], botResponse |-> x["botResponse"],
     feedback |-> x["feedback"], rating |-> parseInt(x["rating"]),
     userId |-> x["userId"], userName |-> x["userName"],
     createdAt |-> time, id |-> 0, oid |-> 0]

(***************************************************************************)
(* Request bodies are texts, modelled as sequences of lexical tokens:      *)
(*   k : "{" "}" "[" "]" ":" "," "=" | "ws" (white space) | "bom" (U+FEFF) *)
(*       | "str" (a string literal) | "num" (a number literal)             *)
(*       | "word" (a bare word: true, false, null, not, json, ...)         *)
(***************************************************************************)
Tok(k, s, n, d) == [k |-> k, s |-> s, n |-> n, d |-> d]
P(k) == Tok(k, "", 0, 0)
Word(w) == Tok("word", w, 0, 0)

RECURSIVE Serialize(_)
RECURSIVE SerializeKids(_, _, _)
\* the members of an object (keyed) or the elements of an array, comma-separated
SerializeKids(kids, i, keyed) ==
    IF i > Len(kids)
    THEN <<>>
    ELSE (IF i > 1 THEN <<P(",")>> ELSE <<>>)
         \o (IF keyed THEN <<Tok("str", kids[i].k, 0, 0), P(":")>> ELSE <<>>)
         \o Serialize(kids[i].v)
         \o SerializeKids(kids, i + 1, keyed)

\* JSON.stringify (part_000:15)
Serialize(v) ==
    CASE v.t = "str" -> <<Tok("str", v.s, 0, 0)>>
      [] v.t = "num" -> <<Tok("num", "", v.n, v.d)>>
      [] v.t = "bool" -> <<Word(IF v.n = 1 THEN "true" ELSE "false")>>
      [] v.t = "obj" -> <<P("{")>> \o SerializeKids(v.kids, 1, TRUE) \o <<P("}")>>
      [] v.t = "arr" -> <<P("[")>> \o SerializeKids(v.kids, 1, FALSE) \o <<P("]")>>
      [] OTHER -> <<Word("null")>>

\* the result of a parsing step: the value and the position after it
Parsed(v, next) == [ok |-> TRUE, v |-> v, next |-> next]
SyntaxError == [ok |-> FALSE, v |-> Undefined, next |-> 0]

KindAt(toks, i) == IF i <= Len(toks) THEN toks[i].k ELSE "eof"

\* obj[k] = v while parsing: a repeated key keeps its place and takes the new value
PutKey(kids, k, v) ==
    IF \E i \in DOMAIN kids : kids[i].k = k
    THEN [i \in DOMAIN kids |-> IF kids[i].k = k THEN KV(k, v) ELSE kids[i]]
    ELSE Append(kids, KV(k, v))

RECURSIVE ParseValue(_, _)
RECURSIVE ParseMembers(_, _, _)
RECURSIVE ParseElements(_, _, _)
\* the members of an object after "{" or ",": string ":" value, then "," or "}"
ParseMembers(toks, i, acc) ==
    IF KindAt(toks, i) = "str" /\ KindAt(toks, i + 1) = ":"
    THEN LET r == ParseValue(toks, i + 2)
         IN  IF ~r.ok
             THEN SyntaxError
             ELSE CASE KindAt(toks, r.next) = ","
                         -> ParseMembers(toks, r.next + 1, PutKey(acc, toks[i].s, r.v))
                    [] KindAt(toks, r.next) = "}"
                         -> Parsed(JObj(PutKey(acc, toks[i].s, r.v)), r.next + 1)
                    [] OTHER -> SyntaxError
    ELSE SyntaxError

\* the elements of an array after "[" or ",": value, then "," or "]"
ParseElements(toks, i, acc) ==
    LET r == ParseValue(toks, i)
    IN  IF ~r.ok
        THEN SyntaxError
        ELSE CASE KindAt(toks, r.next) = ","
                    -> ParseElements(toks, r.next + 1, Append(acc, r.v))
               [] KindAt(toks, r.next) = "]"
                    -> Parsed(JArr(Append(acc, r.v)), r.next + 1)
               [] OTHER -> SyntaxError

ParseValue(toks, i) ==
    CASE KindAt(toks, i) = "str" -> Parsed(JStr(toks[i].s), i + 1)
      [] KindAt(toks, i) = "num" -> Parsed(JDec(toks[i].n, toks[i].d), i + 1)
      [] KindAt(toks, i) = "word" ->
            CASE toks[i].s = "true" -> Parsed(JBool(TRUE), i + 1)
              [] toks[i].s = "false" -> Parsed(JBool(FALSE), i + 1)
              [] toks[i].s = "null" -> Parsed(JNull, i + 1)
              [] OTHER -> SyntaxError
      [] KindAt(toks, i) = "{" ->
            IF KindAt(toks, i + 1) = "}"
            THEN Parsed(JObj(<<>>), i + 2)
            ELSE ParseMembers(toks, i + 1, <<>>)
      [] KindAt(toks, i) = "[" ->
            IF KindAt(toks, i + 1) = "]"
            THEN Parsed(JArr(<<>>), i + 2)
            ELSE ParseElements(toks, i + 1, <<>>)
      [] OTHER -> SyntaxError

\* JSON.parse(text): one value, white space allowed around every token, nothing
\* after the value
JSONparse(text) ==
    LET toks == SelectSeq(text, LAMBDA tk : tk.k # "ws")
        r == ParseValue(toks, 1)
    IN  IF r.ok /\ r.next = Len(toks) + 1 THEN r ELSE SyntaxError

\* String.prototype.trim: white space at both ends, U+FEFF included
IsWhiteSpace(tk) == tk.k \in {"ws", "bom"}
RECURSIVE TrimStart(_)
TrimStart(text) ==
    IF text # <<>> /\ IsWhiteSpace(Head(text)) THEN TrimStart(Tail(text)) ELSE text
RECURSIVE TrimEnd(_)
TrimEnd(text) ==
    IF text # <<>> /\ IsWhiteSpace(text[Len(text)])
    THEN TrimEnd(SubSeq(text, 1, Len(text) - 1))
    ELSE text
Trim(text) == TrimEnd(TrimStart(text))

\* text.replace(/^\uFEFF/, '')
StripBom(text) == IF KindAt(text, 1) = "bom" THEN Tail(text) ELSE text

\* text.startsWith('={')
StartsWithSigil(text) == KindAt(text, 1) = "=" /\ KindAt(text, 2) = "{"

\* text.slice(k)
Slice(text, k) == SubSeq(text, k + 1, Len(text))

\* part_002:312  cleanBody.slice(2)
JsonPart(cleanBody) == Slice(cleanBody, 2)

\* part_002:308-318  the try block of the body middleware
NormalizeBody(raw) ==
    LET cleanBody == StripBom(Trim(raw))
    IN  IF StartsWithSigil(cleanBody)
        THEN JSONparse(JsonPart(cleanBody))
        ELSE JSONparse(cleanBody)

(***************************************************************************)
(* Requests.  A request is handled in the synchronous segments of the      *)
(* event loop: from its arrival to the first await, and from each await's  *)
(* completion to the next await or to the response.                        *)
(*   pc : "idle" (not sent yet) | "connecting" (awaiting connectToMongo)   *)
(*        | "storing" (awaiting insertOne) | "finding" (awaiting toArray)  *)
(*        | "done" (answered)                                              *)
(* status, missingFields, receivedBody, data, list and error are the       *)
(* response; error is what its error property carries: "" (nothing),       *)
(* "message" (the message of the error caught) or "generic" (a fixed       *)
(* text).                                                                  *)
(* dbSeen, seen201 and timedOut record history for the properties only:    *)
(* the reachability of the database while the request was handled, the     *)
(* requests already answered 201 when it arrived, and whether its storage  *)
(* operation ran into maxTimeMS.                                           *)
(***************************************************************************)
Idle ==
    [pc |-> "idle", method |-> "", url |-> "", raw |-> <<>>, body |-> Undefined,
     status |-> 0, missingFields |-> <<>>, receivedBody |-> <<>>, data |-> <<>>,
     list |-> <<>>, dbSeen |-> {}, seen201 |-> {}, timedOut |-> FALSE, error |-> ""]

Respond(r, status) == [r EXCEPT !.pc = "done", !.status = status]

\* part_002:494-497, part_002:505-508, server.js:104-110, server.js:118-124  the
\* catch blocks of the routes: error.message goes into the response
CaughtError(r, status) == [Respond(r, status) EXCEPT !.error = "message"]

\* part_002:303-330  the body middleware; every POST carries a text body
CopilotBodyMw(r) ==
    IF r.method = "POST" /\ r.raw # <<>>
    THEN IF NormalizeBody(r.raw).ok
         THEN [r EXCEPT !.body = NormalizeBody(r.raw).v]
         ELSE [Respond(r, 400) EXCEPT !.receivedBody = r.raw, !.error = "message"]
    ELSE r

\* part_002:401-498  POST /feedback up to the await of insertOne
CopilotPost(r, coll, time) ==
    LET x == Extract(r.body)
        missingFields == MissingFields(x)
    IN  IF Len(missingFields) > 0
        THEN [Respond(r, 400) EXCEPT !.missingFields = missingFields]
        ELSE IF coll = "undefined"
             THEN CaughtError(r, 500)  \* TypeError, caught at part_002:494
             ELSE [r EXCEPT !.pc = "storing", !.data = <<NewFeedback(x, time)>>]

\* part_002:501-509  GET /feedback up to the await of toArray
CopilotGet(r, coll) ==
    IF coll = "undefined" THEN CaughtError(r, 500) ELSE [r EXCEPT !.pc = "finding"]

CopilotRoute(r, coll, time) ==
    IF r.method = "POST" THEN CopilotPost(r, coll, time) ELSE CopilotGet(r, coll)

\* part_002:380-398  the connection middleware up to its await
CopilotConnMw(r, conn, coll, time) ==
    IF ~conn THEN [r EXCEPT !.pc = "connecting"] ELSE CopilotRoute(r, coll, time)

\* part_002:303-398  from arrival to the first await: body middleware, health
\* route, connection middleware, route
CopilotReceive(r, conn, coll, time) ==
    LET b == CopilotBodyMw(r)
    IN  IF b.pc = "done"
        THEN b
        ELSE IF b.url = "/"
             THEN Respond(b, 200)
             ELSE CopilotConnMw(b, conn, coll, time)

\* part_002:303-345, 348-349, 510-516  the same without MONGODB_URI: the
\* connection middleware and the /feedback routes are not registered, and
\* Express answers 404
CopilotUnconfigured(r) ==
    LET b == CopilotBodyMw(r)
    IN  IF b.pc = "done"
        THEN b
        ELSE IF b.url = "/" THEN Respond(b, 200) ELSE Respond(b, 404)

\* express.json() (server.js:17): the BOM is dropped by the decoder; a text
\* whose first character is neither { nor [ is refused (strict); otherwise
\* JSON.parse
ExpressJson(raw) ==
    LET text == StripBom(raw)
    IN  IF KindAt(SelectSeq(text, LAMBDA tk : tk.k # "ws"), 1) \in {"{", "["}
        THEN JSONparse(text)
        ELSE SyntaxError

\* server.js:20-26  the early error middleware answers what express.json() refused
EarlyErrorStatus == 500

\* server.js:78  one of the six fields is falsy
ServerMissing(body) == \E i \in DOMAIN Fields : ~Truthy(Get(body, Fields[i]))

\* (a newFeedback that spreads the body over the server's createdAt)
ServerNewFeedbackSpread(body, time) ==
    [userMessage |-> Get(body, "userMessage"), botResponse |-> Get(body, "botResponse"),
     feedback |-> Get(body, "feedback"), rating |-> parseInt(Get(body, "rating")),
     userId |-> Get(body, "userId"), userName |-> Get(body, "userName"),
     createdAt |-> IF HasKey(body, "createdAt") THEN 0 ELSE time, id |-> ToString(time), oid |-> 0]

\* server.js:86-95  newFeedback
ServerNewFeedback(body, time) ==
    [userMessage |-> Get(body, "userMessage"), botResponse |-> Get(body, "botResponse"),
     feedback |-> Get(body, "feedback"), rating |-> parseInt(Get(body, "rating")),
     userId |-> Get(body, "userId"), userName |-> Get(body, "userName"),
     createdAt |-> time, id |-> ToString(time), oid |-> 0]   \* Date.now().toString()

\* server.js:73-111  POST /feedback up to the await of insertOne
ServerPost(r, coll, time) ==
    IF ServerMissing(r.body)
    THEN Respond(r, 400)
    ELSE IF coll = "undefined"
         THEN CaughtError(r, 500)      \* TypeError, caught at server.js:104
         ELSE [r EXCEPT !.pc = "storing", !.data = <<ServerNewFeedback(r.body, time)>>]

\* server.js:114-125  GET /feedback up to the await of toArray
ServerGet(r, coll) ==
    IF coll = "undefined" THEN CaughtError(r, 500) ELSE [r EXCEPT !.pc = "finding"]

\* server.js:17-125  from arrival to the first await
ServerReceive(r, coll, time) ==
    IF r.method = "POST" /\ ~ExpressJson(r.raw).ok
    THEN CaughtError(r, EarlyErrorStatus)
    ELSE IF r.url = "/"
         THEN Respond(r, 200)
         ELSE IF r.method = "POST"
              THEN ServerPost([r EXCEPT !.body = ExpressJson(r.raw).v], coll, time)
              ELSE ServerGet(r, coll)

(***************************************************************************)
(* The schema-validated variant (part_002:1-275).                          *)
(***************************************************************************)
\* String(n) of a number
NumberToString(v) ==
    IF v.d = 0 THEN ToString(v.n) ELSE ToString(v.n) \o "." \o ToString(v.d)

RECURSIVE JoinChars(_)
JoinChars(cs) == IF cs = <<>> THEN "" ELSE Head(cs) \o JoinChars(Tail(cs))

RECURSIVE DropSpaces(_)
DropSpaces(cs) ==
    IF cs # <<>> /\ Head(cs) = " " THEN DropSpaces(Tail(cs)) ELSE cs

Reverse(cs) == [i \in 1..Len(cs) |-> cs[Len(cs) + 1 - i]]

\* s.trim(), for the strings Chars spells; any other string of the model has no
\* white space at its ends
StringTrim(s) ==
    LET cs == Chars(s)
    IN  IF cs # <<>> /\ (Head(cs) = " " \/ cs[Len(cs)] = " ")
        THEN JoinChars(Reverse(DropSpaces(Reverse(DropSpaces(cs)))))
        ELSE s

\* a path of type String with trim: true (part_002:82-96, 103-113): the value
\* is cast to a string and trimmed; an array or a plain object cannot be cast
CastString(v) ==
    CASE v.t = "str" -> [ok |-> TRUE, v |-> JStr(StringTrim(v.s))]
      [] v.t = "num" -> [ok |-> TRUE, v |-> JStr(NumberToString(v))]
      [] v.t = "bool" -> [ok |-> TRUE, v |-> JStr(IF v.n = 1 THEN "true" ELSE "false")]
      [] v.t \in {"undef", "null"} -> [ok |-> TRUE, v |-> v]
      [] v.t = "obj" /\ Get(v, "_id").t = "str" /\ Get(v, "_id").s # "" ->
            [ok |-> TRUE, v |-> JStr(StringTrim(Get(v, "_id").s))]
      [] OTHER -> [ok |-> FALSE, v |-> Undefined]

\* the path rating, of type Number (part_002:97-102): NaN cannot be cast
CastNumber(v) ==
    IF v.t = "num" THEN [ok |-> TRUE, v |-> v] ELSE [ok |-> FALSE, v |-> Undefined]

\* part_002:162-172  new Feedback({...}); createdAt takes its default, Date.now
\* (part_002:114-118)
Feedback(body, time) ==
    [userMessage |-> CastString(Get(body, "userMessage")).v,
     botResponse |-> CastString(Get(body, "botResponse")).v,
     feedback |-> CastString(Get(body, "feedback")).v,
     rating |-> CastNumber(parseInt(Get(body, "rating"))).v,
     userId |-> CastString(Get(body, "userId")).v,
     userName |-> CastString(Get(body, "userName")).v,
     createdAt |-> time, id |-> 0, oid |-> 0]

\* part_002:175  validateSync(): the paths that fail their cast, `required`
\* (a string must be non-empty), or the range of rating (part_002:84-112)
ValidationErrors(body) ==
    {f \in Range(Fields) \ {"rating"} :
        \/ ~CastString(Get(body, f)).ok
        \/ CastString(Get(body, f)).v.t # "str"
        \/ CastString(Get(body, f)).v.s = ""}
      \cup {f \in {"rating"} :
               \/ ~CastNumber(parseInt(Get(body, "rating"))).ok
               \/ parseInt(Get(body, "rating")).n < 1
               \/ parseInt(Get(body, "rating")).n > 5}

\* part_002:208, part_002:261  what a 500 response says about the error
ErrorShown(env, otherwise) == IF env = "development" THEN "message" ELSE otherwise

\* part_002:152-211  POST /feedback up to the await of save()
MongoosePost(r, rs, time) ==
    IF rs = 0                              \* !mongoose.connection.readyState
    THEN [Respond(r, 503) EXCEPT !.error = "generic"]
    ELSE IF ValidationErrors(r.body) # {}
         THEN Respond(r, 400)
         ELSE [r EXCEPT !.pc = "storing", !.data = <<Feedback(r.body, time)>>]

\* part_002:62-211, 257-264  from arrival to the first await: express.json() and
\* the error middleware for what it refuses, the health route, POST /feedback;
\* this variant has no GET /feedback route, so Express answers 404
MongooseReceive(r, rs, time, env) ==
    IF r.method = "POST" /\ ~ExpressJson(r.raw).ok
    THEN [Respond(r, 500) EXCEPT !.error = ErrorShown(env, "")]
    ELSE IF r.url = "/"
         THEN Respond(r, 200)
         ELSE IF r.method = "POST"
              THEN MongoosePost([r EXCEPT !.body = ExpressJson(r.raw).v], rs, time)
              ELSE Respond(r, 404)

(***************************************************************************)
(* The request bodies clients send.                                        *)
(***************************************************************************)
\* part_000:15-22  the body of testFeedback, with a rating of choice
Full(rating) ==
    JObj(<<KV("userMessage", JStr("How do I reset my password?")),
           KV("botResponse", JStr("Click Forgot Password.")),
           KV("feedback", JStr("The response was helpful")),
           KV("rating", rating),
           KV("userId", JStr("user123")),
           KV("userName", JStr("John Doe"))>>)

Without(obj, key) == JObj(SelectSeq(obj.kids, LAMBDA kv : kv.k # key))

\* a payload in the shape of a chat platform: aliased and nested keys
Aliased ==
    JObj(<<KV("text", JStr("hi")), KV("lastBotResponse", JStr("hello")),
           KV("score", JNum(4)),
           KV("from", JObj(<<KV("id", JStr("u1")), KV("name", JStr("Ann"))>>))>>)

SigilExample == <<P("=")>> \o Serialize(JObj(<<KV("a", JNum(1))>>))
NotJson == <<Word("not"), P("ws"), Word("json")>>

PostTexts ==
    { Serialize(Full(JNum(5))),
      Serialize(Full(JStr("5"))),
      Serialize(Full(JNum(0))),
      Serialize(Full(JStr("abc"))),
      Serialize(Without(Full(JNum(0)), "userId")),
      Serialize(Without(Without(Full(JNum(5)), "userName"), "feedback")),
      Serialize(Aliased),
      SigilExample,
      <<P("=")>> \o Serialize(Full(JNum(5))),
      <<P("bom")>> \o Serialize(Full(JNum(5))) \o <<P("ws")>>,
      NotJson }

\* what a client may send: <<method, url, body text>>
Sendable ==
    {<<"GET", "/", <<>>>>, <<"GET", "/feedback", <<>>>>}
        \cup {<<"POST", "/feedback", text>> : text \in PostTexts}

\* a few of them: a health check, a listing, submissions that differ, in either
\* shape, and a body that is no JSON
FewTexts ==
    {Serialize(Full(JNum(5))), Serialize(Full(JStr("3"))), Serialize(Aliased), NotJson}
FewSendable ==
    {<<"GET", "/", <<>>>>, <<"GET", "/feedback", <<>>>>}
        \cup {<<"POST", "/feedback", text>> : text \in FewTexts}

(***************************************************************************)
(* The values given to the field extractor harness.                        *)
(***************************************************************************)
Atoms == {JStr("u1"), JStr("u2"), JStr(""), JNull, JNum(0)}
WrapKeys == {"id", "userId"}
TopKeys == {"userId", "id", "rating", "from"}

RECURSIVE Level(_)
\* the values nested at most d deep: atoms, one-member objects, one-element arrays
Level(d) ==
    IF d = 0
    THEN Atoms
    ELSE Level(d - 1)
            \cup {JObj(<<KV(k, v)>>) : k \in WrapKeys, v \in Level(d - 1)}
            \cup {JArr(<<v>>) : v \in Level(d - 1)}

ExtractInputs ==
    Level(MaxDepth)
        \cup {JObj(<<KV(k, v)>>) : k \in TopKeys, v \in Level(MaxDepth)}
        \cup {JObj(<<KV(k1, v1), KV(k2, v2)>>) :
                 <<k1, k2>> \in {kk \in TopKeys \X TopKeys : kk[1] # kk[2]},
                 <<v1, v2>> \in (Level(MaxDepth) \X Level(1))
                                    \cup (Level(1) \X Level(MaxDepth))}

(***************************************************************************)
(* The servers.                                                            *)
(***************************************************************************)
HarnessOff == xin = Undefined /\ xout = <<>> /\ xpc = "off"

Init ==
    /\ variant \in {"copilot", "serverjs"}
    /\ dbUp \in BOOLEAN
    /\ startup = "pending"
    /\ isConnected = FALSE
    /\ feedbackCollection = "undefined"
    /\ store = <<>>
    /\ now = 1
    /\ reqs = [i \in 1..MaxReq |-> Idle]
    /\ flips = 0
    /\ HarnessOff
    /\ NODE_ENV \in {"production", "development"}
    /\ readyState = 0
    /\ client = "new"
    /\ shutdown = "none"
    /\ exitCode = -1

InFlight(r) == r.pc \notin {"idle", "done"}

\* the clock advances
Tick ==
    /\ now < MaxTime
    /\ now' = now + 1
    /\ UNCHANGED <<variant, dbUp, startup, isConnected, feedbackCollection, store, reqs,
                   flips, xin, xout, xpc, life>>

\* the database becomes unreachable, or reachable again
DbFlip ==
    /\ flips < MaxFlips
    /\ flips' = flips + 1
    /\ dbUp' = ~dbUp
    /\ reqs' = [i \in DOMAIN reqs |->
                   IF InFlight(reqs[i])
                   THEN [reqs[i] EXCEPT !.dbSeen = @ \cup {dbUp'}]
                   ELSE reqs[i]]
    /\ UNCHANGED <<variant, startup, isConnected, feedbackCollection, store, now,
                   xin, xout, xpc, life>>

\* part_002:362-377  the startup call of connectToMongo settles
CopilotStartup ==
    /\ variant = "copilot"
    /\ startup = "pending"
    /\ startup' = "done"
    /\ isConnected' = dbUp
    /\ feedbackCollection' = IF dbUp THEN "defined" ELSE feedbackCollection
    /\ UNCHANGED <<variant, dbUp, store, now, reqs, flips, xin, xout, xpc, life>>

\* server.js:51-69, 140-162  connectToMongo settles; the server listens after it,
\* unless the failed attempt ends the process (outside Azure)
ServerStartup ==
    /\ variant = "serverjs"
    /\ startup = "pending"
    /\ exitCode = -1
    /\ \/ /\ dbUp /\ client = "new"
          /\ feedbackCollection' = "defined" /\ startup' = "done"
          /\ client' = "open" /\ exitCode' = exitCode
       \/ /\ ~dbUp \/ client # "new"
          /\ feedbackCollection' = feedbackCollection /\ startup' = "done"
          /\ UNCHANGED <<client, exitCode>>
       \/ /\ ~dbUp \/ client # "new"
          /\ feedbackCollection' = feedbackCollection /\ startup' = "exited"
          /\ client' = client /\ exitCode' = 1
    /\ UNCHANGED <<variant, dbUp, isConnected, store, now, reqs, flips, xin, xout, xpc,
                   NODE_ENV, readyState, shutdown>>

\* request i, one of msgs, arrives and runs to its first await or to its response
ReceiveFrom(i, msgs) ==
    /\ reqs[i].pc = "idle"
    /\ \A j \in 1..(i - 1) : reqs[j].pc # "idle"
    /\ variant = "serverjs" => startup = "done"
    /\ variant = "mongoose" => shutdown = "none"   \* server.close() (part_002:269)
    /\ exitCode = -1
    /\ \E m \in msgs :
          LET r == [Idle EXCEPT !.method = m[1], !.url = m[2], !.raw = m[3],
                                !.dbSeen = {dbUp},
                                !.seen201 = {j \in DOMAIN reqs : reqs[j].status = 201}]
          IN  reqs' = [reqs EXCEPT ![i] =
                          CASE variant = "copilot" /\ startup = "unconfigured" ->
                                  CopilotUnconfigured(r)
                            [] variant = "copilot" /\ startup # "unconfigured" ->
                                  CopilotReceive(r, isConnected, feedbackCollection, now)
                            [] variant = "serverjs" ->
                                  ServerReceive(r, feedbackCollection, now)
                            [] variant = "mongoose" ->
                                  MongooseReceive(r, readyState, now, NODE_ENV)]
    /\ UNCHANGED <<variant, dbUp, startup, isConnected, feedbackCollection, store, now,
                   flips, xin, xout, xpc, life>>

Receive(i) == ReceiveFrom(i, Sendable)

\* (a connection middleware that calls next() whatever the attempt gave)
ConnectDoneUnchecked(i) ==
    /\ reqs[i].pc = "connecting"
    /\ exitCode = -1
    /\ isConnected' = dbUp
    /\ feedbackCollection' = IF dbUp THEN "defined" ELSE feedbackCollection
    /\ reqs' = [reqs EXCEPT ![i] = CopilotRoute(@, feedbackCollection', now)]
    /\ UNCHANGED <<variant, dbUp, startup, store, now, flips, xin, xout, xpc, life>>

\* part_002:383-397  the connectToMongo awaited by the connection middleware
\* settles, and the middleware resumes
ConnectDone(i) ==
    /\ reqs[i].pc = "connecting"
    /\ exitCode = -1
    /\ isConnected' = dbUp
    /\ feedbackCollection' = IF dbUp THEN "defined" ELSE feedbackCollection
    /\ reqs' = [reqs EXCEPT ![i] =
                   IF ~isConnected'
                   THEN [Respond(@, 503) EXCEPT !.error = "generic"]
                   ELSE CopilotRoute(@, feedbackCollection', now)]
    /\ UNCHANGED <<variant, dbUp, startup, store, now, flips, xin, xout, xpc, life>>

\* the document as stored: insertOne gives it its _id
Stored(doc) == [doc EXCEPT !.oid = Len(store) + 1]

\* the status of a request whose storage operation threw
\* (part_002:496, part_002:507, server.js:106, server.js:120)
StorageErrorStatus == 500

\* (an insertOne handed a newFeedback that the requests in flight share)
InsertOkShared(i) ==
    /\ reqs[i].pc = "storing"
    /\ exitCode = -1
    /\ variant # "mongoose"
    /\ dbUp
    /\ \E j \in DOMAIN reqs :
          /\ reqs[j].pc = "storing"
          /\ store' = Append(store, Stored(reqs[j].data[1]))
          /\ reqs' = [reqs EXCEPT ![i] =
                         [Respond(@, 201) EXCEPT !.data = <<Stored(reqs[j].data[1])>>]]
    /\ UNCHANGED <<variant, dbUp, startup, isConnected, feedbackCollection, now,
                   flips, xin, xout, xpc, life>>

\* part_002:492-493, server.js:98-103  insertOne succeeds
InsertOk(i) ==
    /\ reqs[i].pc = "storing"
    /\ exitCode = -1
    /\ variant # "mongoose"
    /\ dbUp
    /\ store' = Append(store, Stored(reqs[i].data[1]))
    /\ reqs' = [reqs EXCEPT ![i] = [Respond(@, 201) EXCEPT !.data = <<Stored(@[1])>>]]
    /\ UNCHANGED <<variant, dbUp, startup, isConnected, feedbackCollection, now,
                   flips, xin, xout, xpc, life>>

\* part_002:494-497, server.js:104-110  insertOne throws: the server is unreachable
InsertError(i) ==
    /\ reqs[i].pc = "storing"
    /\ exitCode = -1
    /\ variant # "mongoose"
    /\ ~dbUp
    /\ reqs' = [reqs EXCEPT ![i] = CaughtError(@, StorageErrorStatus)]
    /\ UNCHANGED <<variant, dbUp, startup, isConnected, feedbackCollection, store, now,
                   flips, xin, xout, xpc, life>>

\* part_002:492-497  insertOne runs into maxTimeMS and throws
InsertTimeout(i) ==
    /\ reqs[i].pc = "storing"
    /\ exitCode = -1
    /\ variant = "copilot"
    /\ dbUp
    /\ reqs' = [reqs EXCEPT ![i] = [CaughtError(@, StorageErrorStatus) EXCEPT !.timedOut = TRUE]]
    /\ UNCHANGED <<variant, dbUp, startup, isConnected, feedbackCollection, store, now,
                   flips, xin, xout, xpc, life>>

\* (a listing that removes what it lists)
FindOkDraining(i) ==
    /\ reqs[i].pc = "finding"
    /\ exitCode = -1
    /\ dbUp
    /\ store' = <<>>
    /\ reqs' = [reqs EXCEPT ![i] = [Respond(@, 200) EXCEPT !.list = store]]
    /\ UNCHANGED <<variant, dbUp, startup, isConnected, feedbackCollection, now,
                   flips, xin, xout, xpc, life>>

\* part_002:503-504, server.js:116-117  find({}).toArray() succeeds
FindOk(i) ==
    /\ reqs[i].pc = "finding"
    /\ exitCode = -1
    /\ dbUp
    /\ reqs' = [reqs EXCEPT ![i] = [Respond(@, 200) EXCEPT !.list = store]]
    /\ UNCHANGED <<variant, dbUp, startup, isConnected, feedbackCollection, store, now,
                   flips, xin, xout, xpc, life>>

\* part_002:505-508, server.js:118-124  toArray throws: the server is unreachable
FindError(i) ==
    /\ reqs[i].pc = "finding"
    /\ exitCode = -1
    /\ ~dbUp
    /\ reqs' = [reqs EXCEPT ![i] = CaughtError(@, StorageErrorStatus)]
    /\ UNCHANGED <<variant, dbUp, startup, isConnected, feedbackCollection, store, now,
                   flips, xin, xout, xpc, life>>

\* part_002:503-508  find runs into maxTimeMS and throws
FindTimeout(i) ==
    /\ reqs[i].pc = "finding"
    /\ exitCode = -1
    /\ variant = "copilot"
    /\ dbUp
    /\ reqs' = [reqs EXCEPT ![i] = [CaughtError(@, StorageErrorStatus) EXCEPT !.timedOut = TRUE]]
    /\ UNCHANGED <<variant, dbUp, startup, isConnected, feedbackCollection, store, now,
                   flips, xin, xout, xpc, life>>

Next ==
    \/ Tick
    \/ DbFlip
    \/ CopilotStartup
    \/ ServerStartup
    \/ \E i \in 1..MaxReq : Receive(i)
    \/ \E i \in 1..MaxReq : ConnectDone(i)
    \/ \E i \in 1..MaxReq : InsertOk(i)
    \/ \E i \in 1..MaxReq : InsertError(i)
    \/ \E i \in 1..MaxReq : InsertTimeout(i)
    \/ \E i \in 1..MaxReq : FindOk(i)
    \/ \E i \in 1..MaxReq : FindError(i)
    \/ \E i \in 1..MaxReq : FindTimeout(i)

Spec == Init /\ [][Next]_vars

\* the same servers, with clients that send a few of the messages
FewNext ==
    \/ Tick
    \/ DbFlip
    \/ CopilotStartup
    \/ ServerStartup
    \/ \E i \in 1..MaxReq : ReceiveFrom(i, FewSendable)
    \/ \E i \in 1..MaxReq : ConnectDone(i)
    \/ \E i \in 1..MaxReq : InsertOk(i)
    \/ \E i \in 1..MaxReq : InsertError(i)
    \/ \E i \in 1..MaxReq : InsertTimeout(i)
    \/ \E i \in 1..MaxReq : FindOk(i)
    \/ \E i \in 1..MaxReq : FindError(i)
    \/ \E i \in 1..MaxReq : FindTimeout(i)

SpecFew == Init /\ [][FewNext]_vars

(***************************************************************************)
(* The Copilot Studio variant alone, with or without MONGODB_URI, and with *)
(* the driver's promises settling: client.connect() within                 *)
(* serverSelectionTimeoutMS / connectTimeoutMS (part_002:353-355),         *)
(* insertOne and find within maxTimeMS / socketTimeoutMS (part_002:492,    *)
(* 503, 354).                                                              *)
(***************************************************************************)
CopilotInit ==
    /\ variant = "copilot"
    /\ dbUp \in BOOLEAN
    /\ startup \in {"pending", "unconfigured"}
    /\ isConnected = FALSE
    /\ feedbackCollection = "undefined"
    /\ store = <<>>
    /\ now = 1
    /\ reqs = [i \in 1..MaxReq |-> Idle]
    /\ flips = 0
    /\ HarnessOff
    /\ NODE_ENV \in {"production", "development"}
    /\ readyState = 0
    /\ client = "new"
    /\ shutdown = "none"
    /\ exitCode = -1

CopilotNext ==
    \/ Tick
    \/ DbFlip
    \/ CopilotStartup
    \/ \E i \in 1..MaxReq : ReceiveFrom(i, FewSendable)
    \/ \E i \in 1..MaxReq : ConnectDone(i)
    \/ \E i \in 1..MaxReq : InsertOk(i)
    \/ \E i \in 1..MaxReq : InsertError(i)
    \/ \E i \in 1..MaxReq : InsertTimeout(i)
    \/ \E i \in 1..MaxReq : FindOk(i)
    \/ \E i \in 1..MaxReq : FindError(i)
    \/ \E i \in 1..MaxReq : FindTimeout(i)

\* every awaited promise settles
Settles ==
    \A i \in 1..MaxReq :
        /\ WF_vars(ConnectDone(i))
        /\ WF_vars(InsertOk(i) \/ InsertError(i) \/ InsertTimeout(i))
        /\ WF_vars(FindOk(i) \/ FindError(i) \/ FindTimeout(i))

SpecCopilot == CopilotInit /\ [][CopilotNext]_vars /\ Settles

(***************************************************************************)
(* The life cycle of the process: server.js and the schema-validated       *)
(* variant from startup to the exit after a termination signal.            *)
(***************************************************************************)
\* server.js after module load; the schema-validated variant once it listens:
\* mongoose.connect() has been called when MONGO_URI and COSMOS_DB_NAME are
\* set, otherwise it runs without a connection (part_002:215-254)
LifeInit ==
    /\ variant \in {"serverjs", "mongoose"}
    /\ dbUp \in BOOLEAN
    /\ startup \in IF variant = "mongoose" THEN {"pending", "unconfigured"} ELSE {"pending"}
    /\ isConnected = FALSE
    /\ feedbackCollection = "undefined"
    /\ store = <<>>
    /\ now = 1
    /\ reqs = [i \in 1..MaxReq |-> Idle]
    /\ flips = 0
    /\ HarnessOff
    /\ NODE_ENV \in {"production", "development"}
    /\ readyState = IF variant = "mongoose" /\ startup = "pending" THEN 2 ELSE 0
    /\ client = "new"
    /\ shutdown = "none"
    /\ exitCode = -1

\* part_002:223-237  mongoose.connect() settles; a failure is logged and the
\* process keeps running
MongooseConnected ==
    /\ variant = "mongoose"
    /\ startup = "pending"
    /\ readyState = 2
    /\ exitCode = -1
    /\ startup' = IF dbUp THEN "done" ELSE "failed"
    /\ readyState' = IF dbUp THEN 1 ELSE 0
    /\ UNCHANGED <<variant, dbUp, isConnected, feedbackCollection, store, now, reqs, flips,
                   xin, xout, xpc, NODE_ENV, client, shutdown, exitCode>>

\* part_002:244-246  the connection is lost
MongooseDisconnected ==
    /\ variant = "mongoose"
    /\ readyState = 1
    /\ ~dbUp
    /\ exitCode = -1
    /\ readyState' = 0
    /\ UNCHANGED <<variant, dbUp, startup, isConnected, feedbackCollection, store, now, reqs,
                   flips, xin, xout, xpc, NODE_ENV, client, shutdown, exitCode>>

\* part_002:248-250  the driver has reconnected
MongooseReconnected ==
    /\ variant = "mongoose"
    /\ startup = "done"
    /\ readyState = 0
    /\ shutdown \in {"none", "serverClosing"}
    /\ dbUp
    /\ exitCode = -1
    /\ readyState' = 1
    /\ UNCHANGED <<variant, dbUp, startup, isConnected, feedbackCollection, store, now, reqs,
                   flips, xin, xout, xpc, NODE_ENV, client, shutdown, exitCode>>

\* part_002:184-194  save() succeeds
SaveOk(i) ==
    /\ reqs[i].pc = "storing"
    /\ exitCode = -1
    /\ variant = "mongoose"
    /\ readyState = 1
    /\ dbUp
    /\ store' = Append(store, Stored(reqs[i].data[1]))
    /\ reqs' = [reqs EXCEPT ![i] = [Respond(@, 201) EXCEPT !.data = <<Stored(@[1])>>]]
    /\ UNCHANGED <<variant, dbUp, startup, isConnected, feedbackCollection, now,
                   flips, xin, xout, xpc, life>>

\* part_002:195-210  save() throws: the server is unreachable, or the operation
\* was buffered without a connection until it timed out
SaveError(i) ==
    /\ reqs[i].pc = "storing"
    /\ exitCode = -1
    /\ variant = "mongoose"
    /\ readyState # 1 \/ ~dbUp
    /\ reqs' = [reqs EXCEPT ![i] =
                   [Respond(@, 500) EXCEPT !.error = ErrorShown(NODE_ENV, "generic")]]
    /\ UNCHANGED <<variant, dbUp, startup, isConnected, feedbackCollection, store, now,
                   flips, xin, xout, xpc, life>>

\* (a handler that exits without awaiting close())
SigintExits ==
    /\ variant = "serverjs"
    /\ exitCode = -1
    /\ shutdown = "none"
    /\ shutdown' = "closing"
    /\ exitCode' = 0
    /\ UNCHANGED <<variant, dbUp, startup, isConnected, feedbackCollection, store, now, reqs,
                   flips, xin, xout, xpc, NODE_ENV, readyState, client>>

\* server.js:165-167  SIGINT: the handler calls client.close() and awaits it
Sigint ==
    /\ variant = "serverjs"
    /\ exitCode = -1
    /\ shutdown = "none"
    /\ shutdown' = "closing"
    /\ UNCHANGED <<variant, dbUp, startup, isConnected, feedbackCollection, store, now, reqs,
                   flips, xin, xout, xpc, NODE_ENV, readyState, client, exitCode>>

\* server.js:167-169  close() resolved: process.exit(0)
SigintClosed ==
    /\ variant = "serverjs"
    /\ exitCode = -1
    /\ shutdown = "closing"
    /\ client' = "closed"
    /\ shutdown' = "closed"
    /\ exitCode' = 0
    /\ UNCHANGED <<variant, dbUp, startup, isConnected, feedbackCollection, store, now, reqs,
                   flips, xin, xout, xpc, NODE_ENV, readyState>>

\* server.js:170-173  close() rejected: process.exit(1)
SigintCloseFailed ==
    /\ variant = "serverjs"
    /\ exitCode = -1
    /\ shutdown = "closing"
    /\ shutdown' = "failed"
    /\ exitCode' = 1
    /\ UNCHANGED <<variant, dbUp, startup, isConnected, feedbackCollection, store, now, reqs,
                   flips, xin, xout, xpc, NODE_ENV, readyState, client>>

\* part_002:267-269  SIGTERM: the handler calls server.close()
Sigterm ==
    /\ variant = "mongoose"
    /\ exitCode = -1
    /\ shutdown = "none"
    /\ shutdown' = "serverClosing"
    /\ UNCHANGED <<variant, dbUp, startup, isConnected, feedbackCollection, store, now, reqs,
                   flips, xin, xout, xpc, NODE_ENV, readyState, client, exitCode>>

\* part_002:269-270  the HTTP server has closed, no request being in flight; its
\* callback calls mongoose.connection.close()
ServerClosed ==
    /\ variant = "mongoose"
    /\ exitCode = -1
    /\ shutdown = "serverClosing"
    /\ \A i \in DOMAIN reqs : ~InFlight(reqs[i])
    /\ shutdown' = "closing"
    /\ readyState' = 3
    /\ UNCHANGED <<variant, dbUp, startup, isConnected, feedbackCollection, store, now, reqs,
                   flips, xin, xout, xpc, NODE_ENV, client, exitCode>>

\* part_002:270-273  the connection has closed; the callback calls process.exit(0)
ConnectionClosed ==
    /\ variant = "mongoose"
    /\ exitCode = -1
    /\ shutdown = "closing"
    /\ readyState' = 0
    /\ shutdown' = "closed"
    /\ exitCode' = 0
    /\ UNCHANGED <<variant, dbUp, startup, isConnected, feedbackCollection, store, now, reqs,
                   flips, xin, xout, xpc, NODE_ENV, client>>

\* part_002:270-273  close() failed; the callback ignores its error argument and
\* calls process.exit(0)
ConnectionCloseFailed ==
    /\ variant = "mongoose"
    /\ exitCode = -1
    /\ shutdown = "closing"
    /\ shutdown' = "failed"
    /\ exitCode' = 0
    /\ UNCHANGED <<variant, dbUp, startup, isConnected, feedbackCollection, store, now, reqs,
                   flips, xin, xout, xpc, NODE_ENV, readyState, client>>

LifeNext ==
    \/ Tick
    \/ DbFlip
    \/ ServerStartup
    \/ MongooseConnected
    \/ MongooseDisconnected
    \/ MongooseReconnected
    \/ \E i \in 1..LifeReq : ReceiveFrom(i, FewSendable)
    \/ \E i \in 1..LifeReq : InsertOk(i)
    \/ \E i \in 1..LifeReq : InsertError(i)
    \/ \E i \in 1..LifeReq : FindOk(i)
    \/ \E i \in 1..LifeReq : FindError(i)
    \/ \E i \in 1..LifeReq : SaveOk(i)
    \/ \E i \in 1..LifeReq : SaveError(i)
    \/ Sigint
    \/ SigintClosed
    \/ SigintCloseFailed
    \/ Sigterm
    \/ ServerClosed
    \/ ConnectionClosed
    \/ ConnectionCloseFailed

SpecLife == LifeInit /\ [][LifeNext]_vars

(***************************************************************************)
(* The field extractor harness: the extraction and validation of           *)
(* part_002:438-462 applied to one parsed body.                            *)
(***************************************************************************)
ExtractInit ==
    /\ variant = "copilot"
    /\ dbUp = TRUE
    /\ startup = "pending"
    /\ isConnected = FALSE
    /\ feedbackCollection = "undefined"
    /\ store = <<>>
    /\ now = 1
    /\ reqs = [i \in 1..MaxReq |-> Idle]
    /\ flips = 0
    /\ xin \in ExtractInputs
    /\ xout = <<>>
    /\ xpc = "in"
    /\ NODE_ENV = "development"
    /\ readyState = 0
    /\ client = "new"
    /\ shutdown = "none"
    /\ exitCode = -1

ExtractStep ==
    /\ xpc = "in"
    /\ xpc' = "out"
    /\ xout' = [found |-> [f \in Range(Fields) |-> findValueInObject(xin, fieldKeys(f))],
                fields |-> Extract(xin),
                missingFields |-> MissingFields(Extract(xin))]
    /\ UNCHANGED <<variant, dbUp, startup, isConnected, feedbackCollection, store, now,
                   reqs, flips, xin, life>>

ExtractNext == ExtractStep

SpecExtract == ExtractInit /\ [][ExtractNext]_vars

(***************************************************************************)
(* The field extractor on the call stack.  findValueInObject calls itself  *)
(* once per level of nesting (part_002:420) and nothing bounds the depth:  *)
(* the body middleware limits the size of the body only (express.text,     *)
(* part_002:298), and a body of that size nests far deeper than the call   *)
(* stack of the engine has room for.  An activation that does not fit      *)
(* throws a RangeError.  The harness applies the extraction of             *)
(* part_002:439-444 to values nested up to one level deeper than the       *)
(* stack holds.                                                            *)
(***************************************************************************)
RangeError == Val("thrown", "RangeError", 0, 0, <<>>)

Larger(a, b) == IF a >= b THEN a ELSE b

RECURSIVE Frames(_, _)
RECURSIVE NestedFrames(_, _, _)
\* part_002:418-423  the deepest stack reached by the loop over
\* Object.values(obj), from position i on, counted from the caller's frame
NestedFrames(vals, i, keys) ==
    IF i > Len(vals)
    THEN 0
    ELSE IF Descends(vals[i])
         THEN IF Found(findValueInObject(vals[i], keys))
              THEN Frames(vals[i], keys)
              ELSE Larger(Frames(vals[i], keys), NestedFrames(vals, i + 1, keys))
         ELSE NestedFrames(vals, i + 1, keys)

\* part_002:407-426  the activations of findValueInObject on the stack at the
\* deepest point of one call
Frames(obj, keys) ==
    IF NotSearchable(obj) \/ DirectMatch(obj, keys) # Undefined
    THEN 1
    ELSE 1 + NestedFrames(ObjectValues(obj), 1, keys)

\* part_002:407-426  the call on a stack with room for StackFrames activations
findValueOnStack(obj, keys) ==
    IF Frames(obj, keys) > StackFrames THEN RangeError ELSE findValueInObject(obj, keys)

DeepInputs == Level(StackFrames + 1)

DeepInit ==
    /\ variant = "copilot"
    /\ dbUp = TRUE
    /\ startup = "pending"
    /\ isConnected = FALSE
    /\ feedbackCollection = "undefined"
    /\ store = <<>>
    /\ now = 1
    /\ reqs = [i \in 1..MaxReq |-> Idle]
    /\ flips = 0
    /\ xin \in DeepInputs
    /\ xout = <<>>
    /\ xpc = "in"
    /\ NODE_ENV = "development"
    /\ readyState = 0
    /\ client = "new"
    /\ shutdown = "none"
    /\ exitCode = -1

\* part_002:439-444  the six searches in turn; the first that throws ends the
\* extraction (the catch of part_002:494 takes over)
DeepStep ==
    /\ xpc = "in"
    /\ xpc' = "out"
    /\ LET found == [f \in Range(Fields) |-> findValueOnStack(xin, fieldKeys(f))]
           threw == \E f \in Range(Fields) : found[f] = RangeError
       IN  xout' = [found |-> found,
                    threw |-> threw,
                    fields |-> IF threw THEN <<>> ELSE Extract(xin)]
    /\ UNCHANGED <<variant, dbUp, startup, isConnected, feedbackCollection, store, now,
                   reqs, flips, xin, life>>

DeepNext == DeepStep

SpecDeep == DeepInit /\ [][DeepNext]_vars

(***************************************************************************)
(* Two submissions side by side: the POST /feedback route of each variant  *)
(* applied, at the same server time and with the store connected, to a     *)
(* body and to the same body with one more field.                          *)
(***************************************************************************)
WithField(obj, kv) == JObj(Append(obj.kids, kv))

PairBases ==
    {Full(JNum(5)), Full(JStr("5")), Without(Full(JNum(5)), "userName"),
     Without(Full(JNum(3)), "userId"), Aliased}

\* fields a client may add: none is named like one of the six
ExtraFields ==
    {KV("createdAt", JStr("1999-12-31T00:00:00.000Z")), KV("createdAt", JNum(0)),
     KV("id", JStr("u9")), KV("name", JStr("Eve")), KV("_id", JStr("abc")),
     KV("meta", JObj(<<KV("userName", JStr("Eve"))>>)),
     KV("createdAt", JObj(<<KV("user", JStr("Eve"))>>))}

\* the POST /feedback route of the variant, up to its await
PostRoute(v, body, time) ==
    LET r == [Idle EXCEPT !.method = "POST", !.url = "/feedback", !.body = body]
    IN  CASE v = "copilot" -> CopilotPost(r, "defined", time)
          [] v = "serverjs" -> ServerPost(r, "defined", time)
          [] v = "mongoose" -> MongoosePost(r, 1, time)

PairInit ==
    /\ variant \in {"copilot", "serverjs", "mongoose"}
    /\ dbUp = TRUE
    /\ startup = "done"
    /\ isConnected = (variant = "copilot")
    /\ feedbackCollection = "defined"
    /\ store = <<>>
    /\ now \in 1..MaxTime
    /\ reqs = [i \in 1..MaxReq |-> Idle]
    /\ flips = 0
    /\ xin \in {<<b, WithField(b, kv)>> : b \in PairBases, kv \in ExtraFields}
    /\ xout = <<>>
    /\ xpc = "in"
    /\ NODE_ENV = "production"
    /\ readyState = IF variant = "mongoose" THEN 1 ELSE 0
    /\ client = IF variant = "serverjs" THEN "open" ELSE "new"
    /\ shutdown = "none"
    /\ exitCode = -1

PairStep ==
    /\ xpc = "in"
    /\ xpc' = "out"
    /\ xout' = <<PostRoute(variant, xin[1], now), PostRoute(variant, xin[2], now)>>
    /\ UNCHANGED <<variant, dbUp, startup, isConnected, feedbackCollection, store, now,
                   reqs, flips, xin, life>>

PairNext == PairStep

SpecPair == PairInit /\ [][PairNext]_vars

(***************************************************************************)
(* Properties.                                                             *)
(***************************************************************************)
Done(r) == r.pc = "done"

\* the response of the body middleware's catch block (part_002:322-326)
ParseErrorResponse(r) == r.status = 400 /\ r.receivedBody # <<>>

\* the text after the byte-order mark and the surrounding white space are removed
Clean(raw) == StripBom(Trim(raw))

\* the text is "=" followed by a JSON object
SigilJson(raw) == StartsWithSigil(Clean(raw)) /\ JSONparse(Slice(Clean(raw), 1)).ok

\* C1: in the Copilot Studio variant a POST body whose trimmed text starts with ={
\* is parsed by removing only the leading = : the parsed body is the JSON value
\* of the remainder, and the request is not answered with a parse error.
C1_SigilStripped ==
    variant = "copilot" =>
        \A i \in DOMAIN reqs :
            (reqs[i].pc # "idle" /\ reqs[i].method = "POST" /\ SigilJson(reqs[i].raw))
                => /\ reqs[i].body = JSONparse(Slice(Clean(reqs[i].raw), 1)).v
                   /\ ~ParseErrorResponse(reqs[i])

RequiredFields == {"userMessage", "botResponse", "feedback", "rating", "userId"}

\* a value that is absent, null or the empty string
AbsentNullOrEmpty(v) == v = Undefined \/ v = JNull \/ v = JStr("")

\* the required fields whose extracted value is absent, null or the empty string
AbsentFields(body) ==
    {f \in RequiredFields : AbsentNullOrEmpty(findValueInObject(body, fieldKeys(f)))}

\* the POST has passed the body and connection middleware and run its validation
ReachedValidation(r) ==
    /\ r.method = "POST"
    /\ r.pc \in {"storing", "done"}
    /\ r.body # Undefined
    /\ r.status # 503

\* C2: in the Copilot Studio variant every POST /feedback that reaches validation
\* with at least one required field missing is answered 400 with a missingFields
\* list that, as a set, is exactly the set of the missing required fields.
C2_MissingFieldsExact ==
    variant = "copilot" =>
        \A i \in DOMAIN reqs :
            (ReachedValidation(reqs[i]) /\ AbsentFields(reqs[i].body) # {})
                => /\ reqs[i].status = 400
                   /\ Range(reqs[i].missingFields) = AbsentFields(reqs[i].body)

\* C3: in the Copilot Studio variant, a request handled while the storage
\* connection is down throughout is answered 503 on /feedback (a 400 for a body
\* that does not parse or validate aside) and 200 on GET /.
C3_DownAnswered503 ==
    variant = "copilot" =>
        \A i \in DOMAIN reqs :
            (Done(reqs[i]) /\ reqs[i].dbSeen = {FALSE})
                => IF reqs[i].url = "/"
                   THEN reqs[i].status = 200
                   ELSE reqs[i].status \in {400, 503}

\* the fields the variant requires (part_002:457-462, server.js:78)
RequiredOf(v) == IF v = "copilot" THEN RequiredFields ELSE Range(Fields)

\* every required field is present in the body, not null and not the empty string
AllPresentNonEmpty(body, v) ==
    \A f \in RequiredOf(v) : ~AbsentNullOrEmpty(Get(body, f))

\* the store was connected all through the handling of the request
StoreConnected(r) ==
    /\ r.dbSeen = {TRUE}
    /\ ~r.timedOut
    /\ variant = "serverjs" => feedbackCollection = "defined"

\* C4: with the store connected, every POST /feedback whose required fields are
\* all present and non-empty is answered 201, a 201 is given only after the
\* record is in the store, and a GET /feedback handled after the 201 lists it.
C4_ValidPostStoredAndListed ==
    \A i \in DOMAIN reqs :
        /\ (Done(reqs[i]) /\ reqs[i].method = "POST" /\ reqs[i].body # Undefined
                /\ AllPresentNonEmpty(reqs[i].body, variant) /\ StoreConnected(reqs[i]))
              => reqs[i].status = 201
        /\ reqs[i].status = 201 => reqs[i].data[1] \in Range(store)
        /\ (reqs[i].method = "GET" /\ reqs[i].status = 200 /\ reqs[i].url = "/feedback")
              => \A j \in reqs[i].seen201 : reqs[j].data[1] \in Range(reqs[i].list)

\* the positions of the listed keys that hold a non-null, non-empty value
\* directly on v
DirectHits(v, keys) ==
    {i \in DOMAIN keys : v.t \in {"obj", "arr"} /\ ~AbsentNullOrEmpty(Get(v, keys[i]))}

Least(S) == CHOOSE i \in S : \A j \in S : i <= j

RECURSIVE HeldAnywhere(_, _)
\* the values the listed keys hold on v or on anything nested in v
HeldAnywhere(v, keys) ==
    {Get(v, keys[i]) : i \in DirectHits(v, keys)}
        \cup UNION {HeldAnywhere(v.kids[i].v, keys) : i \in DOMAIN v.kids}

\* the values the listed keys hold strictly below v
HeldNested(v, keys) == UNION {HeldAnywhere(v.kids[i].v, keys) : i \in DOMAIN v.kids}

FromIdExample == JObj(<<KV("from", JObj(<<KV("id", JStr("u1"))>>))>>)

\* C5: findValueInObject gives direct matches priority: when a listed key holds a
\* non-null, non-empty value directly on the object, the result is the value of
\* the earliest such key of the list, whatever is nested; a value from a nested
\* object is returned only when no listed key matches directly; and for
\* {"from": {"id": "u1"}} the userId is "u1".
C5_DirectMatchFirst ==
    xpc = "out" =>
        /\ \A f \in Range(Fields) :
              LET keys == fieldKeys(f)
                  hits == DirectHits(xin, keys)
              IN  /\ hits # {} => xout.found[f] = Get(xin, keys[Least(hits)])
                  /\ (hits = {} /\ xout.found[f] # JNull)
                        => xout.found[f] \in HeldNested(xin, keys)
        /\ xin = FromIdExample => xout.found["userId"] = JStr("u1")

\* a direct match on a later key of the list wins over an earlier-listed key
\* held by a nested object
C5_Witness ==
    /\ xpc = "out"
    /\ xin = JObj(<<KV("from", JObj(<<KV("userId", JStr("u2"))>>)), KV("id", JStr("u1"))>>)
    /\ xout.found["userId"] = JStr("u1")

RECURSIVE HeldOutsideArrays(_, _)
\* the values the listed keys hold on v or on plain objects nested in v,
\* arrays not entered
HeldOutsideArrays(v, keys) ==
    IF v.t # "obj"
    THEN {}
    ELSE {Get(v, keys[i]) : i \in DirectHits(v, keys)}
            \cup UNION {HeldOutsideArrays(v.kids[i].v, keys) : i \in DOMAIN v.kids}

\* C6 as claimed: findValueInObject never searches arrays: when the listed keys
\* occur only inside elements of arrays, the result is the not-found sentinel.
C6_ArraysNotSearched ==
    xpc = "out" =>
        \A f \in Range(Fields) :
            HeldOutsideArrays(xin, fieldKeys(f)) = {} => xout.found[f] = JNull

\* C6 as amended: findValueInObject descends into arrays as it does into plain
\* objects: whenever the search of a value finds a truthy result, the search of
\* an array holding that value, and of an object whose member is that array,
\* finds the same result and not the sentinel.
C6_ArraysSearched ==
    xpc = "out" =>
        \A f \in Range(Fields) :
            Truthy(xout.found[f])
                => /\ findValueInObject(JArr(<<xin>>), fieldKeys(f)) = xout.found[f]
                   /\ findValueInObject(JObj(<<KV("items", JArr(<<xin>>))>>), fieldKeys(f))
                          = xout.found[f]

\* a userId that occurs only inside an element of an array is found
C6_Witness ==
    /\ xpc = "out"
    /\ xin = JObj(<<KV("from", JArr(<<JObj(<<KV("userId", JStr("u1"))>>)>>))>>)
    /\ xout.found["userId"] = JStr("u1")

\* the body is no JSON text, with or without the tolerated prefixes
Unparsable(raw) == ~JSONparse(Clean(raw)).ok /\ ~SigilJson(raw)

\* C7: in every variant a POST /feedback whose body cannot be parsed as JSON is
\* answered 400 and nothing is stored; in the Copilot Studio variant the
\* response carries the raw body.
C7_UnparsableAnswered400 ==
    \A i \in DOMAIN reqs :
        (Done(reqs[i]) /\ reqs[i].method = "POST" /\ Unparsable(reqs[i].raw))
            => /\ reqs[i].status = 400
               /\ reqs[i].data = <<>>
               /\ variant = "copilot" => reqs[i].receivedBody = reqs[i].raw

\* C8: in the Copilot Studio variant's validation a required field is in
\* missingFields exactly when its extracted value is absent, null or the empty
\* string.
C8_MissingIffAbsentNullEmpty ==
    xpc = "out" =>
        \A f \in RequiredFields :
            f \in Range(xout.missingFields) <=> AbsentNullOrEmpty(xout.found[f])

\* C9: every stored record has an integer rating.
C9_StoredRatingInteger ==
    \A k \in DOMAIN store : IsInteger(store[k].rating)

\* C10: in the Copilot Studio variant a request whose insertOne or find ran into
\* its time limit is answered 503.
C10_TimeoutAnswered503 ==
    variant = "copilot" =>
        \A i \in DOMAIN reqs :
            (Done(reqs[i]) /\ reqs[i].timedOut) => reqs[i].status = 503

(***************************************************************************)
(* What holds of validation and storage when "missing" is read as the code *)
(* reads it (falsy: absent, null, "", 0, false).                           *)
(***************************************************************************)
FalsyFields(body) ==
    {f \in RequiredFields : ~Truthy(findValueInObject(body, fieldKeys(f)))}

\* every falsy required field is reported, and no other
FalsyFieldsReported ==
    variant = "copilot" =>
        \A i \in DOMAIN reqs :
            (ReachedValidation(reqs[i]) /\ FalsyFields(reqs[i].body) # {})
                => /\ reqs[i].status = 400
                   /\ Range(reqs[i].missingFields) = FalsyFields(reqs[i].body)

AllTruthy(body, v) == \A f \in RequiredOf(v) : Truthy(Get(body, f))

\* a POST whose required fields are all truthy is stored, answered 201 and listed
TruthyPostStoredAndListed ==
    \A i \in DOMAIN reqs :
        /\ (Done(reqs[i]) /\ reqs[i].method = "POST" /\ reqs[i].body # Undefined
                /\ AllTruthy(reqs[i].body, variant) /\ StoreConnected(reqs[i]))
              => reqs[i].status = 201
        /\ reqs[i].status = 201 => reqs[i].data[1] \in Range(store)
        /\ (reqs[i].method = "GET" /\ reqs[i].status = 200 /\ reqs[i].url = "/feedback")
              => \A j \in reqs[i].seen201 : reqs[j].data[1] \in Range(reqs[i].list)

(***************************************************************************)
(* The stored collection.                                                  *)
(***************************************************************************)
\* the request passed the validation of its route (part_002:457-480, server.js:78-83)
PassedValidation(r) ==
    /\ r.method = "POST" /\ r.url = "/feedback"
    /\ r.body.t = "obj"
    /\ IF variant = "copilot"
       THEN Len(MissingFields(Extract(r.body))) = 0
       ELSE ~ServerMissing(r.body)

\* C11: in every step the stored collection either stays as it is, or grows at
\* its end by one record while exactly one request changes: a POST /feedback
\* that passed validation and is answered 201.  So a request answered 400, 500
\* or 503, a GET /feedback and a GET / leave the collection unchanged, and no
\* step modifies or removes a stored record.
C11_StoreAppendOnly ==
    [][ \/ store' = store
        \/ \E i \in DOMAIN reqs :
              /\ PassedValidation(reqs[i])
              /\ reqs[i].status = 0 /\ reqs'[i].status = 201
              /\ \A j \in DOMAIN reqs \ {i} : reqs'[j] = reqs[j]
              /\ Len(store') = Len(store) + 1
              /\ SubSeq(store', 1, Len(store)) = store
              /\ store'[Len(store')] = reqs'[i].data[1] ]_vars

\* a record is stored, and another request has been refused or has listed
C11_Witness ==
    /\ Len(store) = 1
    /\ \E i, j \in DOMAIN reqs :
          /\ reqs[i].status = 201
          /\ reqs[j].status \in {400, 503} \/ (reqs[j].method = "GET" /\ reqs[j].status = 200)

(***************************************************************************)
(* What a client can put into a stored record.                             *)
(***************************************************************************)
\* every key some field of the Copilot Studio variant is looked up under
AllFieldKeys == UNION {Range(fieldKeys(f)) : f \in Range(Fields)}

\* all six fields are held by the body itself, under their own names, non-empty
HoldsAllSix(body) ==
    \A f \in Range(Fields) :
        Get(body, f).t \notin {"undef", "null"} /\ Get(body, f) # JStr("")

\* the field added to the second body of the pair
ExtraField == xin[2].kids[Len(xin[2].kids)]

\* the two submissions got the same answer and the same record to store
SameOutcome ==
    /\ xout[1].status = xout[2].status
    /\ xout[1].pc = xout[2].pc
    /\ xout[1].data = xout[2].data

CreatedAtIsServerTime ==
    \A k \in 1..2 : \A n \in DOMAIN xout[k].data : xout[k].data[n].createdAt = now

\* C12 as claimed: the createdAt of a record is the server time of handling, and
\* two submissions that differ only in a field named unlike the six, handled at
\* the same server time, give identical records - in every variant.
C12_ExtraFieldsIgnored ==
    xpc = "out" => CreatedAtIsServerTime /\ SameOutcome

\* C12, amended: the createdAt of a record is the server time of handling in
\* every variant, whatever the body holds.  In server.js and in the
\* schema-validated variant two submissions that differ only in a field named
\* unlike the six give identical records.  In the Copilot Studio variant they
\* do when the added field is no alias of a field and holds no object or array,
\* or when the body itself holds all six fields under their own names.
C12_CreatedAtServerSet ==
    xpc = "out" =>
        /\ CreatedAtIsServerTime
        /\ variant \in {"serverjs", "mongoose"} => SameOutcome
        /\ (variant = "copilot" /\ ExtraField.k \notin AllFieldKeys
              /\ ExtraField.v.t \notin {"obj", "arr"}) => SameOutcome
        /\ (variant = "copilot" /\ HoldsAllSix(xin[1])) => SameOutcome

\* a body with a client-supplied createdAt has been accepted next to its twin,
\* and the record carries the server's time
C12_Witness ==
    /\ xpc = "out"
    /\ ExtraField.k = "createdAt"
    /\ xout[1].pc = "storing" /\ xout[2].pc = "storing"
    /\ xout[2].data[1].createdAt = now
    /\ xout[2].data = xout[1].data

(***************************************************************************)
(* What a 500 response discloses.                                          *)
(***************************************************************************)
\* C13: in production mode a 500 response to POST /feedback or GET /feedback
\* carries only a generic message, never the message of the error caught.
C13_ProductionGeneric ==
    \A i \in DOMAIN reqs :
        (NODE_ENV = "production" /\ reqs[i].url = "/feedback" /\ reqs[i].status = 500)
            => reqs[i].error # "message"

(***************************************************************************)
(* Shutdown.                                                               *)
(***************************************************************************)
\* the process has exited through its signal handler
ExitedOnSignal == exitCode # -1 /\ shutdown # "none" /\ startup # "exited"

\* the storage connection is open
ConnectionOpen ==
    IF variant = "mongoose" THEN readyState # 0 ELSE client = "open"

\* C14 as claimed: after a termination signal the process never exits before
\* the storage connection has been closed.
C14_ClosedBeforeExit == ExitedOnSignal => ~ConnectionOpen

\* C14, amended: after a termination signal the handler exits only once its
\* close call has settled.  If the close succeeded the connection is closed and
\* the exit code is 0; if it failed the process exits all the same, with code 1
\* in server.js and with code 0 in the schema-validated variant.
C14_ExitAfterCloseSettled ==
    ExitedOnSignal =>
        /\ shutdown \in {"closed", "failed"}
        /\ shutdown = "closed" => ~ConnectionOpen /\ exitCode = 0
        /\ shutdown = "failed" => exitCode = IF variant = "serverjs" THEN 1 ELSE 0

\* the process has exited after a close that succeeded on a connection that had
\* been made
C14_Witness ==
    /\ ExitedOnSignal
    /\ shutdown = "closed"
    /\ startup = "done"
    /\ IF variant = "mongoose" THEN readyState = 0 ELSE client = "closed"
    /\ \E i \in DOMAIN reqs : reqs[i].status = 201

(***************************************************************************)
(* Concurrent submissions.                                                 *)
(***************************************************************************)
SixOf(doc) == [f \in Range(Fields) |-> doc[f]]

\* the six field values the route takes from the request's own body
OwnSix(r) ==
    SixOf(IF variant = "copilot"
          THEN NewFeedback(Extract(r.body), 0)
          ELSE ServerNewFeedback(r.body, 0))

Answered201 == {i \in DOMAIN reqs : reqs[i].status = 201}

\* the stored records that carry the _id returned to request i
RecordsOf(i) == {n \in DOMAIN store : store[n].oid = reqs[i].data[1].oid}

\* C15: under every interleaving of POST /feedback requests, each request
\* answered 201 has stored exactly one record, whose six field values are those
\* taken from its own body; every stored record belongs to one such request, so
\* none holds a value of another request; and there are as many stored records
\* as 201 responses.
C15_OneOwnRecordEach ==
    /\ \A i \in Answered201 :
          /\ Cardinality(RecordsOf(i)) = 1
          /\ \A n \in RecordsOf(i) : SixOf(store[n]) = OwnSix(reqs[i])
    /\ \A n \in DOMAIN store : \E i \in Answered201 : n \in RecordsOf(i)
    /\ \A i, j \in Answered201 : i # j => RecordsOf(i) \cap RecordsOf(j) = {}
    /\ Len(store) = Cardinality(Answered201)

\* two submissions with different field values were in flight together and
\* completed in the reverse order of their arrival
C15_Witness ==
    /\ Answered201 = {1, 2}
    /\ OwnSix(reqs[1]) # OwnSix(reqs[2])
    /\ RecordsOf(2) = {1} /\ RecordsOf(1) = {2}

(***************************************************************************)
(* Every request is answered.                                              *)
(***************************************************************************)
Outcomes == {200, 201, 400, 500, 503}

\* the response of an answered request is never replaced
AnsweredOnce ==
    [][\A i \in DOMAIN reqs : Done(reqs[i]) => reqs'[i] = reqs[i]]_vars

\* C16: in the Copilot Studio variant every request to GET /, POST /feedback or
\* GET /feedback is eventually answered, with a status among 200, 201, 400, 500
\* and 503, and an answered request is never answered again.
C16_AnsweredOnceWithOutcome ==
    /\ \A i \in 1..MaxReq : (reqs[i].pc # "idle") ~> Done(reqs[i])
    /\ [](\A i \in DOMAIN reqs : Done(reqs[i]) => reqs[i].status \in Outcomes)
    /\ AnsweredOnce

\* what holds of the statuses: with MONGODB_URI set the status of an answered
\* request is among the five outcomes; without it a /feedback request is
\* answered 400 when its body does not parse and 404 otherwise
OutcomeOrNotFound ==
    \A i \in DOMAIN reqs :
        Done(reqs[i]) =>
            IF startup = "unconfigured" /\ reqs[i].url = "/feedback"
            THEN reqs[i].status \in {400, 404}
            ELSE reqs[i].status \in Outcomes

(***************************************************************************)
(* The field extractor is total.                                           *)
(***************************************************************************)
DefaultOf(f) == IF f = "userName" THEN JStr("anonymous") ELSE JStr("")

\* C17: findValueInObject is total on parsed JSON: for every JSON value, at any
\* nesting depth, and every key list it returns without throwing, and it
\* returns null when no listed key holds a non-null, non-empty value anywhere
\* in the structure, so that the caller's default is used.
C17_TotalOnParsedJson ==
    xpc = "out" =>
        /\ ~xout.threw
        /\ \A f \in Range(Fields) :
              HeldAnywhere(xin, fieldKeys(f)) = {}
                  => xout.found[f] = JNull /\ xout.fields[f] = DefaultOf(f)

\* what holds of the search: a call that fits on the stack returns null when
\* no listed key holds a non-null, non-empty value anywhere, and the default
\* is used
NullWhenNothingHeld ==
    (xpc = "out" /\ ~xout.threw) =>
        \A f \in Range(Fields) :
            HeldAnywhere(xin, fieldKeys(f)) = {}
                => xout.found[f] = JNull /\ xout.fields[f] = DefaultOf(f)

\* a value nested deeper than the stack holds, with no listed key in it
DeepThrows ==
    /\ xpc = "out"
    /\ xin = JArr(<<JArr(<<JArr(<<JArr(<<JNull>>)>>)>>)>>)
    /\ xout.threw

(***************************************************************************)
(* The schema-validated variant without a connection.                      *)
(***************************************************************************)
\* request i arrives in this step as a POST /feedback that express.json()
\* hands to the handler of the schema-validated variant
PostArrives(i) ==
    /\ variant = "mongoose"
    /\ reqs[i].pc = "idle"
    /\ reqs'[i].pc # "idle"
    /\ reqs'[i].method = "POST"
    /\ reqs'[i].url = "/feedback"
    /\ ExpressJson(reqs'[i].raw).ok

Answered503(r) == Done(r) /\ r.status = 503

\* C18: in the schema-validated variant every POST /feedback that arrives
\* while the connection is not established (disconnected, connecting or
\* disconnecting) is answered 503 without validation or a save; only in the
\* connected state does the handler go on to validate and save.
C18_Unavailable503 ==
    [][\A i \in DOMAIN reqs :
          PostArrives(i) =>
              IF readyState # 1
              THEN Answered503(reqs'[i]) /\ store' = store
              ELSE ~Answered503(reqs'[i])]_vars

\* what holds of the handler: a POST /feedback that arrives in the
\* disconnected state is answered 503, and one that arrives in any other
\* state is validated
OnlyDisconnected503 ==
    [][\A i \in DOMAIN reqs :
          PostArrives(i) =>
              IF readyState = 0
              THEN Answered503(reqs'[i]) /\ store' = store
              ELSE IF ValidationErrors(reqs'[i].body) # {}
                   THEN Done(reqs'[i]) /\ reqs'[i].status = 400
                   ELSE reqs'[i].pc = "storing"]_vars

(***************************************************************************)
(* The connection middleware of the Copilot Studio variant.                *)
(***************************************************************************)
\* the body middleware hands request r on (part_002:303-330)
BodyAccepted(r) == (r.method = "POST" /\ r.raw # <<>>) => NormalizeBody(r.raw).ok

\* request i arrives in this step at the connection middleware: MONGODB_URI is
\* set, the request is for /feedback and the body middleware handed it on
ReachesConnMw(i) ==
    /\ variant = "copilot"
    /\ startup # "unconfigured"
    /\ reqs[i].pc = "idle"
    /\ reqs'[i].pc # "idle"
    /\ reqs'[i].url = "/feedback"
    /\ BodyAccepted(reqs'[i])

\* the connection attempt of request i settles in this step
AttemptSettles(i) == reqs[i].pc = "connecting" /\ reqs'[i].pc # "connecting"

\* the route handler of r has run up to its answer or to its storage operation
HandedToRoute(r) ==
    IF r.method = "POST"
    THEN r.pc = "storing" \/ (Done(r) /\ r.status = 400 /\ r.missingFields # <<>>)
    ELSE r.pc = "finding"

\* C19: in the Copilot Studio variant a request to /feedback that reaches the
\* connection middleware while isConnected is false starts a connection
\* attempt and waits for its outcome; if the attempt succeeds the same request
\* is passed on to its route handler and is not answered 503; if it fails the
\* request is answered 503, the route handler is not run and nothing is
\* stored.  So a request whose attempt finds the database reachable is served.
C19_ConnectOnDemand ==
    [][\A i \in 1..MaxReq :
          /\ (ReachesConnMw(i) /\ ~isConnected) => reqs'[i].pc = "connecting"
          /\ AttemptSettles(i) =>
                IF dbUp
                THEN /\ isConnected'
                     /\ HandedToRoute(reqs'[i])
                     /\ reqs'[i].status # 503
                ELSE /\ Answered503(reqs'[i])
                     /\ reqs'[i].data = <<>> /\ reqs'[i].missingFields = <<>>
                     /\ store' = store]_vars

\* the startup attempt is still pending; a first request found the database
\* unreachable and was answered 503; the database became reachable and the
\* next submission connected by its own attempt and was stored
C19_Witness ==
    /\ variant = "copilot"
    /\ startup = "pending"
    /\ isConnected
    /\ reqs[1].status = 503
    /\ reqs[2].status = 201
    /\ Len(store) = 1

(***************************************************************************)
(* The connection flag of the Copilot Studio variant.                      *)
(***************************************************************************)
\* what holds of the flag: whenever isConnected is true, feedbackCollection
\* is defined
CollectionDefinedWhenConnected == isConnected => feedbackCollection = "defined"

\* C20: in the Copilot Studio variant, under every interleaving of the startup
\* connection attempt and the attempts started by requests, once isConnected
\* has been set to true it is never set back to false, and whenever
\* isConnected is true feedbackCollection is defined.
C20_ConnectedStays ==
    /\ [][isConnected => isConnected']_vars
    /\ [](isConnected => feedbackCollection = "defined")

(***************************************************************************)
(* The synthetic id of server.js.                                          *)
(***************************************************************************)
\* C21: in server.js the id that POST /feedback assigns from the submission
\* time is unique across the stored collection: after any sequence or
\* interleaving of accepted submissions no two stored records have the same id.
C21_IdUnique ==
    variant = "serverjs" =>
        \A m, n \in DOMAIN store : m # n => store[m].id # store[n].id

\* what holds of the id: it is the text of the millisecond in which the
\* handler ran, so records made in different milliseconds have different ids,
\* and the _id given by insertOne is unique
IdIsSubmissionTime ==
    variant = "serverjs" =>
        /\ \A n \in DOMAIN store : store[n].id = ToString(store[n].createdAt)
        /\ \A m, n \in DOMAIN store :
              m # n => /\ store[m].oid # store[n].oid
                       /\ store[m].createdAt # store[n].createdAt
                              => store[m].id # store[n].id

\* two submissions handled in the same millisecond are both stored
SameMillisecondTwice ==
    /\ variant = "serverjs"
    /\ Len(store) = 2
    /\ store[1].id = store[2].id
    /\ reqs[1].status = 201 /\ reqs[2].status = 201

====
